---- MODULE Spec2Model ----
(***************************************************************************)
(* Model of lambda/lambda_function.py: an SQS-triggered AWS Lambda handler *)
(* that re-encodes uploaded images.  Each invocation walks the Batch       *)
(* (event['Records']) one Message at a time; a Message is parsed, filtered *)
(* by the 'uploads/' prefix, fetched from the object store, re-encoded as  *)
(* JPEG quality 30 and stored under the key with 'uploads/' replaced by    *)
(* 'optimized/'.  Any exception is caught per Message.                     *)
(*                                                                         *)
(* Strings whose characters matter (object keys) are sequences of          *)
(* one-character strings, so that str.startswith and str.replace are       *)
(* computed as Python computes them.                                       *)
(***************************************************************************)
EXTENDS Naturals, Sequences, FiniteSets, TLC

VARIABLES
    event,       \* per invocation: the event argument of lambda_handler
    pc,          \* per invocation: where the handler is
    i,           \* per invocation: position of the for loop in the Batch
    bucket,      \* per invocation: local variable bucket
    key,         \* per invocation: local variable key
    image_data,  \* per invocation: local variable image_data
    buffer,      \* per invocation: contents of the local BytesIO buffer
    store,       \* the objects of the object store, by bucket and key
    log,         \* per invocation: lines printed and store calls made
    response     \* per invocation: the value returned

vars == <<event, pc, i, bucket, key, image_data, buffer, store, log, response>>

\* ------------------------------------------------------------ bounds

\* Longest Batch (number of Messages in event['Records']).
MaxBatch == 2

\* Most embedded change records in one Message body.
MaxRecords == 2

\* ------------------------------------------------------------ literals

\* 'uploads/'
SrcPrefix == <<"u", "p", "l", "o", "a", "d", "s", "/">>

\* 'optimized/'
DstPrefix == <<"o", "p", "t", "i", "m", "i", "z", "e", "d", "/">>

\* quality=30 of image.save
Quality == 30

\* 'statusCode': 200
StatusOK == 200

\* The value lambda_handler returns.
BatchProcessed == [statusCode |-> StatusOK, body |-> "Batch processed"]

\* No value returned (yet).
NoResponse == [statusCode |-> 0, body |-> ""]

\* ------------------------------------------------------------ str methods

\* str.startswith
StartsWith(s, p) == Len(s) >= Len(p) /\ SubSeq(s, 1, Len(p)) = p

\* str.replace(old, new): every non-overlapping occurrence, left to right.
RECURSIVE Replace(_, _, _)
Replace(s, old, new) ==
    IF s = <<>> THEN <<>>
    ELSE IF StartsWith(s, old)
         THEN new \o Replace(SubSeq(s, Len(old) + 1, Len(s)), old, new)
         ELSE <<Head(s)>> \o Replace(Tail(s), old, new)

\* 'uploads/' in key: the prefix anywhere in the key.
RECURSIVE AcceptedAnywhere(_)
AcceptedAnywhere(k) ==
    /\ k # <<>>
    /\ (StartsWith(k, SrcPrefix) \/ AcceptedAnywhere(Tail(k)))

\* The policy of line 20: the key is accepted iff it starts with 'uploads/'.
Accepted(k) == StartsWith(k, SrcPrefix)

\* output_key with the arguments of replace exchanged.
OutputKeySwapped(k) == Replace(k, DstPrefix, SrcPrefix)

\* output_key of line 37.
OutputKey(k) == Replace(k, SrcPrefix, DstPrefix)

\* ------------------------------------------------------------ object keys

NameB == <<"b", ".", "j", "p", "g">>
DirA == <<"a", "/">>

\* uploads/b.jpg
KeyJpg == SrcPrefix \o NameB
\* uploads/a/uploads/b.jpg
KeyNested == SrcPrefix \o DirA \o SrcPrefix \o NameB
\* uploads/a/optimized/b.jpg
KeyMixed == SrcPrefix \o DirA \o DstPrefix \o NameB
\* uploads/c.png (an image with an alpha channel)
KeyPng == SrcPrefix \o <<"c", ".", "p", "n", "g">>
\* uploads/d.txt (not an image)
KeyTxt == SrcPrefix \o <<"d", ".", "t", "x", "t">>
\* uploads/e.jpg (no such object)
KeyGone == SrcPrefix \o <<"e", ".", "j", "p", "g">>
\* thumbs/b.jpg
KeyThumb == <<"t", "h", "u", "m", "b", "s", "/">> \o NameB
\* a/uploads/b.jpg
KeyInner == DirA \o SrcPrefix \o NameB
\* optimized/b.jpg
KeyOut == DstPrefix \o NameB
\* uploads (no slash)
KeyBare == <<"u", "p", "l", "o", "a", "d", "s">>

AcceptedKeys == {KeyJpg, KeyNested, KeyMixed, KeyPng, KeyTxt, KeyGone}
SkippedKeys == {KeyThumb, KeyInner, KeyOut, KeyBare}
Keys == AcceptedKeys \cup SkippedKeys

\* A record of the S3 event without the field, and with a JSON null for it.
MissingBucket == "<missing>"
MissingKey == <<"<missing>">>
NullKey == <<"<null>">>

Buckets == {"b1", "b2"}

\* Every key an object can be stored under.
StoreKeys == Keys \cup {OutputKey(k) : k \in AcceptedKeys}

Objects == Buckets \X StoreKeys

\* ------------------------------------------------------------ images

NoData == [fmt |-> "none", mode |-> "none", pixels |-> "none", quality |-> 0]
Junk == [fmt |-> "text", mode |-> "none", pixels |-> "none", quality |-> 0]
JpegOf(p) == [fmt |-> "JPEG", mode |-> "RGB", pixels |-> p, quality |-> 90]
PngRGBA == [fmt |-> "PNG", mode |-> "RGBA", pixels |-> "C", quality |-> 100]

\* Image.open(io.BytesIO(image_data)): raises on bytes that are no image.
ImageOpen(data) ==
    IF data.fmt \in {"JPEG", "PNG"}
    THEN [ok |-> TRUE, err |-> "", image |-> data]
    ELSE [ok |-> FALSE, err |-> "UnidentifiedImageError", image |-> NoData]

\* image.save(buffer, format='JPEG', quality=30): JPEG has no alpha channel.
ImageSave(image) ==
    IF image.mode = "RGBA"
    THEN [ok |-> FALSE, err |-> "OSError", data |-> NoData]
    ELSE [ok |-> TRUE, err |-> "",
          data |-> [fmt |-> "JPEG", mode |-> image.mode,
                    pixels |-> image.pixels, quality |-> Quality]]

\* ------------------------------------------------------------ object store

NoObject == [exists |-> FALSE, body |-> NoData, ctype |-> ""]
Object(data, ctype) == [exists |-> TRUE, body |-> data, ctype |-> ctype]

\* s3.get_object(Bucket, Key)['Body'].read(); fault is a transient error.
GetObject(st, b, k, fault) ==
    IF fault THEN [ok |-> FALSE, err |-> "ClientError", data |-> NoData]
    ELSE IF ~st[<<b, k>>].exists
         THEN [ok |-> FALSE, err |-> "NoSuchKey", data |-> NoData]
         ELSE [ok |-> TRUE, err |-> "", data |-> st[<<b, k>>].body]

\* s3.put_object(Bucket, Key, Body, ContentType): the store after the call.
PutObject(st, b, k, data, ctype) == [st EXCEPT ![<<b, k>>] = Object(data, ctype)]

\* The store before any invocation: the uploads as named by their keys, and
\* with pre an older optimized/b.jpg already there in bucket b1.
InitialStore(pre) ==
    [o \in Objects |->
        IF o[2] \in {KeyJpg, KeyNested, KeyMixed, KeyThumb, KeyInner}
        THEN Object(JpegOf(IF o[1] = "b1" THEN "A" ELSE "B"), "image/jpeg")
        ELSE IF o[2] = KeyPng THEN Object(PngRGBA, "image/png")
        ELSE IF o[2] = KeyTxt THEN Object(Junk, "text/plain")
        ELSE IF pre /\ o = <<"b1", KeyOut>>
             THEN Object([fmt |-> "JPEG", mode |-> "RGB", pixels |-> "old",
                          quality |-> Quality], "image/jpeg")
        ELSE NoObject]

InitialStores == {InitialStore(pre) : pre \in BOOLEAN}

\* ------------------------------------------------------------ messages

S3Record(b, k) == [bucket |-> b, key |-> k]

\* The body of a Message as json.loads sees it: text that is no JSON, JSON
\* that is no object, or an object with or without a "Records" list.
Body(form, hasRecords, records) ==
    [form |-> form, hasRecords |-> hasRecords, Records |-> records]

Message(hasBody, body) == [hasBody |-> hasBody, body |-> body]

NoBody == Message(FALSE, Body("malformed", FALSE, <<>>))
Notification(records) == Message(TRUE, Body("object", TRUE, records))

\* Records as the first change record of a body.
WellFormedRecords ==
    {S3Record("b1", k) : k \in Keys}
    \cup {S3Record("b2", k) : k \in {KeyJpg, KeyThumb}}
BrokenRecords ==
    {S3Record(MissingBucket, KeyJpg), S3Record("b1", MissingKey),
     S3Record("b1", NullKey)}

\* Messages carrying at most one change record.
Messages ==
    {NoBody,
     Message(TRUE, Body("malformed", FALSE, <<>>)),
     Message(TRUE, Body("scalar", FALSE, <<>>)),
     Message(TRUE, Body("object", FALSE, <<>>)),
     Notification(<<>>)}
    \cup {Notification(<<r>>) : r \in WellFormedRecords \cup BrokenRecords}

\* Messages carrying one to MaxRecords change records.
MultiRecords ==
    {S3Record("b1", KeyJpg), S3Record("b2", KeyThumb), S3Record("b1", MissingKey)}
LaterRecords == {S3Record("b2", KeyJpg), S3Record("b1", KeyThumb)}
MultiMessages ==
    {Notification(<<r>> \o rs) :
        r \in MultiRecords,
        rs \in UNION {[1..n -> LaterRecords] : n \in 0..(MaxRecords - 1)}}

\* Messages of two invocations running side by side.
SharedMessages ==
    {Notification(<<S3Record("b1", k)>>) : k \in {KeyJpg, KeyThumb}}

Batches(msgs) == UNION {[1..n -> msgs] : n \in 0..MaxBatch}

\* The event argument: with a "Records" list (the Batch), or without one.
Events(msgs) ==
    {[hasRecords |-> FALSE, Records |-> <<>>]}
    \cup {[hasRecords |-> TRUE, Records |-> b] : b \in Batches(msgs)}

Invocations == {"inv1", "inv2"}

\* ------------------------------------------------------------ parsing

\* json.loads(record['body']) of line 13.
JsonLoads(body) ==
    IF body.form = "malformed"
    THEN [ok |-> FALSE, err |-> "JSONDecodeError", value |-> body]
    ELSE [ok |-> TRUE, err |-> "", value |-> body]

\* Extract reading the last change record, message_body['Records'][-1].
ExtractLast(m) ==
    LET none == [ok |-> FALSE, err |-> "", gotBucket |-> FALSE,
                 bucket |-> "", key |-> <<>>]
    IN  IF ~m.hasBody THEN [none EXCEPT !.err = "KeyError:body"]
        ELSE LET parsed == JsonLoads(m.body)
                 v == parsed.value
             IN  IF ~parsed.ok THEN [none EXCEPT !.err = parsed.err]
                 ELSE IF v.form # "object" THEN [none EXCEPT !.err = "TypeError"]
                 ELSE IF ~v.hasRecords THEN [none EXCEPT !.err = "KeyError:Records"]
                 ELSE IF Len(v.Records) = 0 THEN [none EXCEPT !.err = "IndexError"]
                 ELSE LET s3_record == v.Records[Len(v.Records)]
                      IN  IF s3_record.bucket = MissingBucket
                          THEN [none EXCEPT !.err = "KeyError:bucket"]
                          ELSE IF s3_record.key = MissingKey
                          THEN [none EXCEPT !.err = "KeyError:key",
                                            !.gotBucket = TRUE,
                                            !.bucket = s3_record.bucket]
                          ELSE [ok |-> TRUE, err |-> "", gotBucket |-> TRUE,
                                bucket |-> s3_record.bucket,
                                key |-> s3_record.key]

\* Lines 13-17: the bucket and key of the first change record, or the
\* exception raised on the way.  bucket is assigned before key is read.
Extract(m) ==
    LET none == [ok |-> FALSE, err |-> "", gotBucket |-> FALSE,
                 bucket |-> "", key |-> <<>>]
    IN  IF ~m.hasBody THEN [none EXCEPT !.err = "KeyError:body"]
        ELSE LET parsed == JsonLoads(m.body)
                 v == parsed.value
             IN  IF ~parsed.ok THEN [none EXCEPT !.err = parsed.err]
                 ELSE IF v.form # "object" THEN [none EXCEPT !.err = "TypeError"]
                 ELSE IF ~v.hasRecords THEN [none EXCEPT !.err = "KeyError:Records"]
                 ELSE IF Len(v.Records) = 0 THEN [none EXCEPT !.err = "IndexError"]
                 ELSE LET s3_record == v.Records[1]
                      IN  IF s3_record.bucket = MissingBucket
                          THEN [none EXCEPT !.err = "KeyError:bucket"]
                          ELSE IF s3_record.key = MissingKey
                          THEN [none EXCEPT !.err = "KeyError:key",
                                            !.gotBucket = TRUE,
                                            !.bucket = s3_record.bucket]
                          ELSE [ok |-> TRUE, err |-> "", gotBucket |-> TRUE,
                                bucket |-> s3_record.bucket,
                                key |-> s3_record.key]

\* ------------------------------------------------------------ diagnostics

\* One line of output or one call to the object store, by Message index.
Entry(kind, m, b, k, data, text) ==
    [kind |-> kind, msg |-> m, bucket |-> b, key |-> k, data |-> data,
     text |-> text]

\* Lines 42-44: the two lines printed for a Message that raised.
Failure(m, detail) ==
    <<Entry("failed", m, "", <<>>, NoData, ""),
      Entry("detail", m, "", <<>>, NoData, detail)>>

\* ------------------------------------------------------------ handler

Batch(inv) == event[inv].Records

\* Current for a loop over reversed(event['Records']).
CurrentReversed(inv) == Len(Batch(inv)) + 1 - i[inv]

\* The position in the Batch of the Message the for loop of line 10 is at.
Current(inv) == i[inv]

\* Line 10: event['Records'] is read once; a missing key raises KeyError
\* outside every try block.
Enter(inv) ==
    /\ pc[inv] = "start"
    /\ pc' = [pc EXCEPT ![inv] = IF event[inv].hasRecords THEN "loop" ELSE "raised"]
    /\ UNCHANGED <<event, i, bucket, key, image_data, buffer, store, log, response>>

\* Except as `except KeyError`: any other exception leaves the handler.
ExceptKeyError(inv, before, detail) ==
    IF detail \in {"KeyError:body", "KeyError:Records", "KeyError:bucket",
                   "KeyError:key"}
    THEN /\ log' = [log EXCEPT ![inv] = @ \o before \o Failure(Current(inv), detail)]
         /\ i' = [i EXCEPT ![inv] = @ + 1]
         /\ pc' = [pc EXCEPT ![inv] = "loop"]
    ELSE /\ log' = [log EXCEPT ![inv] = @ \o before]
         /\ i' = i
         /\ pc' = [pc EXCEPT ![inv] = "raised"]

\* Except with the handler leaving the loop (break) after the failure lines.
ExceptBreak(inv, before, detail) ==
    /\ log' = [log EXCEPT ![inv] = @ \o before \o Failure(Current(inv), detail)]
    /\ i' = [i EXCEPT ![inv] = Len(Batch(inv)) + 1]
    /\ pc' = [pc EXCEPT ![inv] = "loop"]

\* Lines 42-44 and the loop's next iteration: the statement that raised has
\* logged `before`; the two failure lines follow.
Except(inv, before, detail) ==
    /\ log' = [log EXCEPT ![inv] = @ \o before \o Failure(Current(inv), detail)]
    /\ i' = [i EXCEPT ![inv] = @ + 1]
    /\ pc' = [pc EXCEPT ![inv] = "loop"]

\* Lines 11-24: parse the Message, apply the prefix policy.
Parse(inv) ==
    /\ pc[inv] = "loop"
    /\ i[inv] <= Len(Batch(inv))
    /\ LET x == Extract(Batch(inv)[Current(inv)])
       IN  /\ bucket' = [bucket EXCEPT ![inv] = IF x.gotBucket THEN x.bucket ELSE @]
           /\ key' = [key EXCEPT ![inv] = IF x.ok THEN x.key ELSE @]
           /\ IF ~x.ok THEN Except(inv, <<>>, x.err)
              ELSE IF x.key = NullKey THEN Except(inv, <<>>, "AttributeError")
              ELSE IF ~Accepted(x.key)
              THEN /\ log' = [log EXCEPT ![inv] =
                                Append(@, Entry("skip", Current(inv), "", x.key,
                                                NoData, ""))]
                   /\ i' = [i EXCEPT ![inv] = @ + 1]
                   /\ pc' = pc
              ELSE /\ log' = [log EXCEPT ![inv] =
                                Append(@, Entry("processing", Current(inv),
                                                x.bucket, x.key, NoData, ""))]
                   /\ i' = i
                   /\ pc' = [pc EXCEPT ![inv] = "get"]
    /\ UNCHANGED <<event, image_data, buffer, store, response>>

\* Lines 27-28: download the object.
Fetch(inv) ==
    /\ pc[inv] = "get"
    /\ \E fault \in BOOLEAN :
          LET got == GetObject(store, bucket[inv], key[inv], fault)
              call == Entry("get", Current(inv), bucket[inv], key[inv], got.data,
                            IF got.ok THEN "ok" ELSE got.err)
          IN  IF got.ok
              THEN /\ image_data' = [image_data EXCEPT ![inv] = got.data]
                   /\ log' = [log EXCEPT ![inv] = Append(@, call)]
                   /\ pc' = [pc EXCEPT ![inv] = "transcode"]
                   /\ i' = i
              ELSE /\ image_data' = image_data
                   /\ Except(inv, <<call>>, got.err)
    /\ UNCHANGED <<event, bucket, key, buffer, store, response>>

\* buffer = io.BytesIO() of line 32: a new buffer, nothing written to it.
EmptyBuffer == NoData

\* Transcode that falls back to the bytes as fetched when they do not decode.
TranscodeFallback(inv) ==
    /\ pc[inv] = "transcode"
    /\ LET opened == ImageOpen(image_data[inv])
           saved == ImageSave(opened.image)
       IN  IF ~opened.ok
           THEN /\ buffer' = [buffer EXCEPT ![inv] = image_data[inv]]
                /\ pc' = [pc EXCEPT ![inv] = "put"]
                /\ UNCHANGED <<i, log>>
           ELSE IF ~saved.ok
           THEN /\ Except(inv, <<>>, saved.err)
                /\ buffer' = [buffer EXCEPT ![inv] = EmptyBuffer]
           ELSE /\ buffer' = [buffer EXCEPT ![inv] = saved.data]
                /\ pc' = [pc EXCEPT ![inv] = "put"]
                /\ UNCHANGED <<i, log>>
    /\ UNCHANGED <<event, bucket, key, image_data, store, response>>

\* Lines 29-34: decode the image and re-encode it into buffer.  Image.open
\* raises before buffer is rebound (line 29); image.save raises after line 32
\* has rebound it to a new, empty buffer.
Transcode(inv) ==
    /\ pc[inv] = "transcode"
    /\ LET opened == ImageOpen(image_data[inv])
           saved == ImageSave(opened.image)
       IN  IF ~opened.ok THEN Except(inv, <<>>, opened.err) /\ buffer' = buffer
           ELSE IF ~saved.ok
           THEN /\ Except(inv, <<>>, saved.err)
                /\ buffer' = [buffer EXCEPT ![inv] = EmptyBuffer]
           ELSE /\ buffer' = [buffer EXCEPT ![inv] = saved.data]
                /\ pc' = [pc EXCEPT ![inv] = "put"]
                /\ UNCHANGED <<i, log>>
    /\ UNCHANGED <<event, bucket, key, image_data, store, response>>

\* Store that leaves an existing destination object alone.
StoreIfAbsent(inv) ==
    /\ pc[inv] = "put"
    /\ \E fault \in BOOLEAN :
          LET output_key == OutputKey(key[inv])
              call == Entry("put", Current(inv), bucket[inv], output_key,
                            buffer[inv], IF fault THEN "PutFailed" ELSE "ok")
              done == Entry("saved", Current(inv), "", output_key, NoData, "")
          IN  IF store[<<bucket[inv], output_key>>].exists
              THEN /\ ~fault
                   /\ store' = store
                   /\ log' = [log EXCEPT ![inv] = Append(@, done)]
                   /\ i' = [i EXCEPT ![inv] = @ + 1]
                   /\ pc' = [pc EXCEPT ![inv] = "loop"]
              ELSE IF fault
              THEN /\ store' = store
                   /\ Except(inv, <<call>>, "PutFailed")
              ELSE /\ store' = PutObject(store, bucket[inv], output_key,
                                         buffer[inv], "image/jpeg")
                   /\ log' = [log EXCEPT ![inv] = @ \o <<call, done>>]
                   /\ i' = [i EXCEPT ![inv] = @ + 1]
                   /\ pc' = [pc EXCEPT ![inv] = "loop"]
    /\ UNCHANGED <<event, bucket, key, image_data, buffer, response>>

\* Lines 37-40: derive the destination key and upload buffer.
Store(inv) ==
    /\ pc[inv] = "put"
    /\ \E fault \in BOOLEAN :
          LET output_key == OutputKey(key[inv])
              call == Entry("put", Current(inv), bucket[inv], output_key,
                            buffer[inv], IF fault THEN "PutFailed" ELSE "ok")
          IN  IF fault
              THEN /\ store' = store
                   /\ Except(inv, <<call>>, "PutFailed")
              ELSE /\ store' = PutObject(store, bucket[inv], output_key,
                                         buffer[inv], "image/jpeg")
                   /\ log' = [log EXCEPT ![inv] =
                                @ \o <<call, Entry("saved", Current(inv), "",
                                                   output_key, NoData, "")>>]
                   /\ i' = [i EXCEPT ![inv] = @ + 1]
                   /\ pc' = [pc EXCEPT ![inv] = "loop"]
    /\ UNCHANGED <<event, bucket, key, image_data, buffer, response>>

\* Return with a response that reports the failures of the Batch.
ReturnPartial(inv) ==
    /\ pc[inv] = "loop"
    /\ i[inv] > Len(Batch(inv))
    /\ response' = [response EXCEPT ![inv] =
                      IF \E n \in DOMAIN log[inv] : log[inv][n].kind = "failed"
                      THEN [statusCode |-> 207, body |-> "Batch partially processed"]
                      ELSE BatchProcessed]
    /\ pc' = [pc EXCEPT ![inv] = "done"]
    /\ UNCHANGED <<event, i, bucket, key, image_data, buffer, store, log>>

\* Line 46: the loop is over.
Return(inv) ==
    /\ pc[inv] = "loop"
    /\ i[inv] > Len(Batch(inv))
    /\ response' = [response EXCEPT ![inv] = BatchProcessed]
    /\ pc' = [pc EXCEPT ![inv] = "done"]
    /\ UNCHANGED <<event, i, bucket, key, image_data, buffer, store, log>>

\* The shape of the state.
TypeOK ==
    /\ \A inv \in Invocations :
          /\ pc[inv] \in {"idle", "start", "loop", "get", "transcode", "put",
                          "done", "raised"}
          /\ i[inv] \in 1..(Len(Batch(inv)) + 1)
          /\ bucket[inv] \in Buckets \cup {""}
          /\ response[inv] \in {NoResponse, BatchProcessed}
          /\ \A n \in DOMAIN log[inv] :
                log[inv][n].kind \in {"skip", "processing", "get", "put", "saved",
                                      "failed", "detail"}
    /\ DOMAIN store = Objects

\* ------------------------------------------------------------ specifications

\* The invocations in `running` have been handed an event over msgs; the
\* others are never started.
InitWith(running, msgs) ==
    /\ event \in [Invocations -> Events(msgs)]
    /\ \A inv \in Invocations \ running :
          event[inv] = [hasRecords |-> TRUE, Records |-> <<>>]
    /\ pc = [inv \in Invocations |-> IF inv \in running THEN "start" ELSE "idle"]
    /\ i = [inv \in Invocations |-> 1]
    /\ bucket = [inv \in Invocations |-> ""]
    /\ key = [inv \in Invocations |-> <<>>]
    /\ image_data = [inv \in Invocations |-> NoData]
    /\ buffer = [inv \in Invocations |-> NoData]
    /\ store \in InitialStores
    /\ log = [inv \in Invocations |-> <<>>]
    /\ response = [inv \in Invocations |-> NoResponse]

Init == InitWith({"inv1"}, Messages)

InitMulti == InitWith({"inv1"}, MultiMessages)

InitShared == InitWith(Invocations, SharedMessages)

Next ==
    \E inv \in Invocations :
        \/ Enter(inv)
        \/ Parse(inv)
        \/ Fetch(inv)
        \/ Transcode(inv)
        \/ Store(inv)
        \/ Return(inv)

\* One invocation, Messages with at most one change record.
Spec == Init /\ [][Next]_vars

\* One invocation, Messages with several change records.
SpecMulti == InitMulti /\ [][Next]_vars

\* Two invocations sharing the object store.
SpecShared == InitShared /\ [][Next]_vars

\* ------------------------------------------------------------ observations

\* What invocation inv logged for the Message at position j, in order.
Entries(inv, j) == SelectSeq(log[inv], LAMBDA e : e.msg = j)

\* The same entries without the position.
Strip(es) == [n \in DOMAIN es |-> [es[n] EXCEPT !.msg = 0]]

Has(inv, j, kind) ==
    \E n \in DOMAIN log[inv] : log[inv][n].msg = j /\ log[inv][n].kind = kind

Count(inv, j, kind) ==
    Len(SelectSeq(log[inv], LAMBDA e : e.msg = j /\ e.kind = kind))

HasText(inv, j, text) ==
    \E n \in DOMAIN log[inv] : log[inv][n].msg = j /\ log[inv][n].text = text

\* The Message at position j has been dealt with.
Finished(inv, j) == j \in 1..Len(Batch(inv)) /\ j < i[inv]

Positions(inv) == 1..Len(Batch(inv))

\* What a handler logs for Message m on its own, against store st, when the
\* store answers the get and the put with the given transient errors.
Alone(m, st, getFault, putFault) ==
    LET x == Extract(m)
    IN  IF ~x.ok THEN Failure(0, x.err)
        ELSE IF x.key = NullKey THEN Failure(0, "AttributeError")
        ELSE IF ~StartsWith(x.key, SrcPrefix)
        THEN <<Entry("skip", 0, "", x.key, NoData, "")>>
        ELSE
          LET proc == Entry("processing", 0, x.bucket, x.key, NoData, "")
              got == GetObject(st, x.bucket, x.key, getFault)
              getE == Entry("get", 0, x.bucket, x.key, got.data,
                            IF got.ok THEN "ok" ELSE got.err)
              opened == ImageOpen(got.data)
              saved == ImageSave(opened.image)
              out == Replace(x.key, SrcPrefix, DstPrefix)
              putE == Entry("put", 0, x.bucket, out, saved.data,
                            IF putFault THEN "PutFailed" ELSE "ok")
          IN  IF ~got.ok THEN <<proc, getE>> \o Failure(0, got.err)
              ELSE IF ~opened.ok THEN <<proc, getE>> \o Failure(0, opened.err)
              ELSE IF ~saved.ok THEN <<proc, getE>> \o Failure(0, saved.err)
              ELSE IF putFault THEN <<proc, getE, putE>> \o Failure(0, "PutFailed")
              ELSE <<proc, getE, putE, Entry("saved", 0, "", out, NoData, "")>>

\* ------------------------------------------------------------ C1

\* C1: for every Batch, whatever the outcome of each Message, the handler
\* does not raise, can always take its next step until it returns, and
\* returns exactly {statusCode: 200, body: "Batch processed"}.
C1_FixedResponse ==
    \A inv \in Invocations :
        /\ event[inv].hasRecords => pc[inv] # "raised"
        /\ pc[inv] \in {"loop", "get", "transcode", "put"} =>
              ENABLED (Parse(inv) \/ Fetch(inv) \/ Transcode(inv)
                       \/ Store(inv) \/ Return(inv))
        /\ pc[inv] = "done" =>
              response[inv] = [statusCode |-> 200, body |-> "Batch processed"]
        /\ pc[inv] # "done" => response[inv] = NoResponse

\* A Batch of two Messages that both failed, after the handler returned.
C1_AllFailedReturned ==
    /\ pc["inv1"] = "done"
    /\ Len(Batch("inv1")) = 2
    /\ \A j \in 1..2 : Has("inv1", j, "failed")
    /\ response["inv1"] = BatchProcessed

\* ------------------------------------------------------------ C2

\* C2: every Message of the Batch is attempted whatever happened to the
\* earlier ones, and what is logged and called for a finished Message is
\* what the same Message yields on its own with the same answers from the
\* store.
C2_Isolation ==
    \A inv \in Invocations : \A j \in Positions(inv) :
        /\ pc[inv] = "done" => Entries(inv, j) # <<>>
        /\ Finished(inv, j) =>
              Strip(Entries(inv, j)) =
                  Alone(Batch(inv)[j], store, HasText(inv, j, "ClientError"),
                        HasText(inv, j, "PutFailed"))

\* Scenario 4: the first Message hit a fetch error, the second was written.
C2_SecondWrittenAfterFetchError ==
    /\ pc["inv1"] = "done"
    /\ Len(Batch("inv1")) = 2
    /\ \E n \in DOMAIN log["inv1"] :
          LET e == log["inv1"][n]
          IN  e.msg = 1 /\ e.kind = "get" /\ e.text # "ok"
    /\ Has("inv1", 1, "failed")
    /\ \E n \in DOMAIN log["inv1"] :
          LET e == log["inv1"][n]
          IN  /\ e.msg = 2 /\ e.kind = "put" /\ e.text = "ok"
              /\ store[<<e.bucket, e.key>>] = Object(e.data, "image/jpeg")

\* ------------------------------------------------------------ C3

\* The first change record of m has a text key that does not start with
\* 'uploads/'.
KeyOutsideUploads(m) ==
    LET x == Extract(m)
    IN  x.ok /\ x.key # NullKey /\ ~StartsWith(x.key, SrcPrefix)

C3_SkippedLog ==
    \A inv \in Invocations : \A j \in Positions(inv) :
        (Finished(inv, j) /\ KeyOutsideUploads(Batch(inv)[j])) =>
            Entries(inv, j) =
                <<Entry("skip", j, "", Extract(Batch(inv)[j]).key, NoData, "")>>

C3_SkippedStep ==
    \A inv \in Invocations :
        (/\ pc[inv] = "loop"
         /\ i[inv] <= Len(Batch(inv))
         /\ KeyOutsideUploads(Batch(inv)[i[inv]])
         /\ pc'[inv] # pc[inv] \/ i'[inv] # i[inv]) =>
            /\ store' = store
            /\ pc'[inv] = "loop"
            /\ i'[inv] = i[inv] + 1

\* C3: a Message whose key does not start with 'uploads/' causes no get, no
\* decode or encode and no put, logs exactly the skip line naming the key and
\* no failure line, and its step leaves the store as it was.
C3_SkipTouchesNothing == []C3_SkippedLog /\ [][C3_SkippedStep]_vars

\* a/uploads/b.jpg, an object that exists, was skipped.
C3_InnerPrefixSkipped ==
    /\ Len(Batch("inv1")) >= 1
    /\ Finished("inv1", 1)
    /\ KeyOutsideUploads(Batch("inv1")[1])
    /\ Extract(Batch("inv1")[1]).key = KeyInner
    /\ store[<<"b1", KeyInner>>].exists
    /\ Has("inv1", 1, "skip")

\* ------------------------------------------------------------ C4

\* str.replace(old, new, 1): the first occurrence only.
RECURSIVE ReplaceFirst(_, _, _)
ReplaceFirst(s, old, new) ==
    IF s = <<>> THEN <<>>
    ELSE IF StartsWith(s, old)
         THEN new \o SubSeq(s, Len(old) + 1, Len(s))
         ELSE <<Head(s)>> \o ReplaceFirst(Tail(s), old, new)

\* C4: every put is addressed to the Message's key with only the first
\* 'uploads/' replaced by 'optimized/'.
C4_FirstOccurrenceOnly ==
    \A inv \in Invocations : \A n \in DOMAIN log[inv] :
        LET e == log[inv][n]
        IN  e.kind = "put" =>
                e.key = ReplaceFirst(Extract(Batch(inv)[e.msg]).key,
                                     SrcPrefix, DstPrefix)

\* ------------------------------------------------------------ C5

\* The put of the Message at position j went through.
Written(inv, j) ==
    \E n \in DOMAIN log[inv] :
        log[inv][n].msg = j /\ log[inv][n].kind = "put" /\ log[inv][n].text = "ok"

\* The Message is accepted and its fetch, decode, encode and write succeed.
EveryStepSucceeds(inv, j) ==
    LET x == Extract(Batch(inv)[j])
        src == store[<<x.bucket, x.key>>]
    IN  /\ x.ok /\ x.key # NullKey /\ StartsWith(x.key, SrcPrefix)
        /\ src.exists /\ ~HasText(inv, j, "ClientError")
        /\ ImageOpen(src.body).ok
        /\ ImageSave(ImageOpen(src.body).image).ok
        /\ ~HasText(inv, j, "PutFailed")

\* The last put that went through for object o, if any.
LastPut(inv, o) ==
    {n \in DOMAIN log[inv] :
        /\ log[inv][n].kind = "put" /\ log[inv][n].text = "ok"
        /\ <<log[inv][n].bucket, log[inv][n].key>> = o
        /\ \A k \in DOMAIN log[inv] :
              (k > n /\ log[inv][k].kind = "put" /\ log[inv][k].text = "ok") =>
                  <<log[inv][k].bucket, log[inv][k].key>> # o}

\* C5: a finished Message has its Output Artifact written iff it is accepted
\* and fetch, decode, encode and write all succeed; the store holds, for every
\* object, the artifact of the last successful Message addressed to it, and
\* is as it was before the Batch everywhere else.
C5_ArtifactIff ==
    /\ \A j \in Positions("inv1") :
          Finished("inv1", j) => (Written("inv1", j) <=> EveryStepSucceeds("inv1", j))
    /\ \A o \in Objects :
          IF LastPut("inv1", o) = {}
          THEN \E st \in InitialStores : store[o] = st[o]
          ELSE \A n \in LastPut("inv1", o) :
                  store[o] = Object(log["inv1"][n].data, "image/jpeg")

\* The first Message was written and stays; the second failed at the put and
\* left nothing.
C5_FirstWrittenSecondFailed ==
    /\ pc["inv1"] = "done"
    /\ Len(Batch("inv1")) = 2
    /\ Written("inv1", 1)
    /\ HasText("inv1", 2, "PutFailed")
    /\ store[<<"b1", KeyOut>>] =
          Object([fmt |-> "JPEG", mode |-> "RGB", pixels |-> "A",
                  quality |-> 30], "image/jpeg")
    /\ ~store[<<"b2", KeyOut>>].exists

\* ------------------------------------------------------------ C6

\* The error the Message at position j ran into, "" when it ran into none.
ErrorOf(inv, j) ==
    LET x == Extract(Batch(inv)[j])
        src == store[<<x.bucket, x.key>>]
    IN  IF ~x.ok THEN x.err
        ELSE IF x.key = NullKey THEN "AttributeError"
        ELSE IF ~StartsWith(x.key, SrcPrefix) THEN ""
        ELSE IF HasText(inv, j, "ClientError") THEN "ClientError"
        ELSE IF ~src.exists THEN "NoSuchKey"
        ELSE IF src.body.fmt \notin {"JPEG", "PNG"} THEN "UnidentifiedImageError"
        ELSE IF src.body.mode = "RGBA" THEN "OSError"
        ELSE IF HasText(inv, j, "PutFailed") THEN "PutFailed"
        ELSE ""

\* C6: every failure of a Message is caught at that Message: one failure
\* line naming the Message, followed by the error detail, ends what is logged
\* for it; a Message without failure logs none; the loop goes on to the end
\* of the Batch and nothing is raised to the caller.
C6_CaughtPerMessage ==
    \A inv \in Invocations :
        /\ event[inv].hasRecords => pc[inv] # "raised"
        /\ pc[inv] = "done" => \A j \in Positions(inv) : Finished(inv, j)
        /\ \A j \in Positions(inv) :
              Finished(inv, j) =>
                  LET es == Entries(inv, j)
                      err == ErrorOf(inv, j)
                  IN  IF err = ""
                      THEN Count(inv, j, "failed") = 0 /\ Count(inv, j, "detail") = 0
                      ELSE /\ Count(inv, j, "failed") = 1
                           /\ Count(inv, j, "detail") = 1
                           /\ Len(es) >= 2
                           /\ es[Len(es) - 1].kind = "failed"
                           /\ es[Len(es)].kind = "detail"
                           /\ es[Len(es)].text = err
                           /\ ~Has(inv, j, "skip") /\ ~Has(inv, j, "saved")

\* A Message without 'body' failed and the next Message was dealt with.
C6_NoBodyCaught ==
    /\ pc["inv1"] = "done"
    /\ Len(Batch("inv1")) = 2
    /\ ~Batch("inv1")[1].hasBody
    /\ \E n \in DOMAIN log["inv1"] :
          LET e == log["inv1"][n]
          IN  e.msg = 1 /\ e.kind = "detail" /\ e.text = "KeyError:body"
    /\ Has("inv1", 2, "saved")

\* ------------------------------------------------------------ C7

Terminal == {"skip", "saved", "detail"}

\* C7: within one invocation the log runs through the Batch in order, one
\* Message at a time: positions never decrease along the log, every position
\* before the current one is complete and none after it has begun, and a put
\* comes after the successful get of the same Message.
C7_OneAtATimeInOrder ==
    \A inv \in Invocations :
        LET lg == log[inv]
        IN  /\ \A a, b \in DOMAIN lg : a < b => lg[a].msg <= lg[b].msg
            /\ \A n \in DOMAIN lg : lg[n].msg \in Positions(inv) /\ lg[n].msg <= i[inv]
            /\ \A j \in Positions(inv) :
                  /\ j < i[inv] =>
                        /\ Entries(inv, j) # <<>>
                        /\ Entries(inv, j)[Len(Entries(inv, j))].kind \in Terminal
                  /\ (j = i[inv] /\ pc[inv] \in {"get", "transcode", "put"}) =>
                        /\ Has(inv, j, "processing")
                        /\ \A n \in DOMAIN lg : lg[n].msg = j => lg[n].kind \notin Terminal
                  /\ (j = i[inv] /\ pc[inv] = "loop") => Entries(inv, j) = <<>>
            /\ \A n \in DOMAIN lg :
                  lg[n].kind = "put" =>
                      \E a \in 1..(n - 1) :
                          /\ lg[a].msg = lg[n].msg
                          /\ lg[a].kind = "get" /\ lg[a].text = "ok"

\* Both Messages of a Batch were fetched and written, the first before the
\* second.
C7_TwoWrittenInOrder ==
    /\ pc["inv1"] = "done"
    /\ Len(Batch("inv1")) = 2
    /\ Written("inv1", 1) /\ Written("inv1", 2)

\* ------------------------------------------------------------ C8

\* C8: whatever follows the first change record of a body, the Message logs
\* and calls what the body holding the first record alone yields: at most one
\* get and one put, addressed by the first record, and one skip or failure
\* at most.
C8_FirstRecordOnly ==
    \A inv \in Invocations : \A j \in Positions(inv) :
        Finished(inv, j) =>
            LET records == Batch(inv)[j].body.Records
                first == records[1]
                es == Entries(inv, j)
            IN  /\ Strip(es) =
                      Alone(Notification(<<first>>), store,
                            HasText(inv, j, "ClientError"),
                            HasText(inv, j, "PutFailed"))
                /\ Count(inv, j, "get") <= 1
                /\ Count(inv, j, "put") <= 1
                /\ Count(inv, j, "skip") + Count(inv, j, "failed") <= 1
                /\ \A n \in DOMAIN es :
                      /\ es[n].kind \in {"get", "processing"} =>
                            es[n].bucket = first.bucket /\ es[n].key = first.key
                      /\ es[n].kind = "put" =>
                            /\ es[n].bucket = first.bucket
                            /\ es[n].key = Replace(first.key, SrcPrefix, DstPrefix)
                      /\ es[n].kind = "skip" => es[n].key = first.key
                /\ ~StartsWith(first.key, SrcPrefix) =>
                      ~Has(inv, j, "get") /\ ~Has(inv, j, "put")

\* The first record is skipped by the prefix policy, a later one has a key
\* under uploads/: the Message is skipped and nothing else.
C8_LaterRecordIgnored ==
    /\ Len(Batch("inv1")) >= 1
    /\ Finished("inv1", 1)
    /\ Batch("inv1")[1].body.Records =
          <<S3Record("b2", KeyThumb), S3Record("b2", KeyJpg)>>
    /\ Entries("inv1", 1) = <<Entry("skip", 1, "", KeyThumb, NoData, "")>>

\* ------------------------------------------------------------ C9

\* Every put that went through, of any invocation.
PutsDone ==
    {e \in UNION {{log[inv][n] : n \in DOMAIN log[inv]} : inv \in Invocations} :
        e.kind = "put" /\ e.text = "ok"}

C9_SamePutEachTime ==
    /\ \A a, b \in Invocations :
          \A n \in DOMAIN log[a] : \A k \in DOMAIN log[b] :
              LET e == log[a][n]
                  f == log[b][k]
              IN  (/\ e.kind = "put" /\ f.kind = "put"
                   /\ Batch(a)[e.msg] = Batch(b)[f.msg]) =>
                      e.bucket = f.bucket /\ e.key = f.key /\ e.data = f.data
    /\ \A inv \in Invocations : \A j \in Positions(inv) :
          (/\ Finished(inv, j)
           /\ \E n \in DOMAIN log[inv] :
                 LET e == log[inv][n]
                 IN  /\ e.msg = j /\ e.kind = "get" /\ e.text = "ok"
                     /\ ImageOpen(e.data).ok
                     /\ ImageSave(ImageOpen(e.data).image).ok) =>
              Count(inv, j, "put") = 1
    /\ \A o \in Objects :
          LET puts == {e \in PutsDone : <<e.bucket, e.key>> = o}
          IN  IF puts = {}
              THEN \E st \in InitialStores : store[o] = st[o]
              ELSE \A e \in puts : store[o] = Object(e.data, "image/jpeg")

C9_SecondPutChangesNothing ==
    \A inv \in Invocations :
        (/\ pc[inv] = "put"
         /\ pc'[inv] = "loop"
         /\ \E other \in Invocations : \E j \in Positions(other) :
               Written(other, j) /\ Batch(other)[j] = Batch(inv)[i[inv]]) =>
            store' = store

\* C9: a Message processed again, in the same Batch or by another
\* invocation, issues its put again to the same bucket and key with the same
\* bytes whether or not the object is there, and the store after it is the
\* store after the first time.
C9_RedeliveryOverwrites == []C9_SamePutEachTime /\ [][C9_SecondPutChangesNothing]_vars

\* The same Message written twice by one invocation and once by the other.
C9_WrittenThreeTimes ==
    /\ \A inv \in Invocations : pc[inv] = "done"
    /\ Len(Batch("inv1")) = 2
    /\ Batch("inv1")[1] = Batch("inv1")[2]
    /\ Len(Batch("inv2")) >= 1
    /\ Batch("inv2")[1] = Batch("inv1")[1]
    /\ Written("inv1", 1) /\ Written("inv1", 2) /\ Written("inv2", 1)
    /\ store[<<"b1", KeyOut>>].body.pixels = "A"

\* ------------------------------------------------------------ C10

\* C10: every put goes to the bucket the Message names and was fetched from,
\* under a key that starts with 'optimized/' and not with 'uploads/'; a
\* Message naming an object the handler wrote is skipped.
C10_OutputNeverAccepted ==
    /\ \A inv \in Invocations : \A n \in DOMAIN log[inv] :
          LET e == log[inv][n]
          IN  e.kind = "put" =>
                  /\ e.bucket = Batch(inv)[e.msg].body.Records[1].bucket
                  /\ \E a \in 1..(n - 1) :
                        /\ log[inv][a].msg = e.msg /\ log[inv][a].kind = "get"
                        /\ log[inv][a].bucket = e.bucket
                  /\ StartsWith(e.key, DstPrefix)
                  /\ ~StartsWith(e.key, SrcPrefix)
    /\ \A inv \in Invocations : \A j \in Positions(inv) :
          LET x == Extract(Batch(inv)[j])
          IN  (/\ Finished(inv, j) /\ x.ok
               /\ \E e \in PutsDone : e.bucket = x.bucket /\ e.key = x.key) =>
                  Entries(inv, j) = <<Entry("skip", j, "", x.key, NoData, "")>>

\* uploads/b.jpg was written to optimized/b.jpg, whose own notification, next
\* in the Batch, was skipped.
C10_OwnOutputSkipped ==
    /\ Len(Batch("inv1")) = 2
    /\ Finished("inv1", 2)
    /\ Extract(Batch("inv1")[1]).key = KeyJpg
    /\ Extract(Batch("inv1")[2]).key = KeyOut
    /\ Extract(Batch("inv1")[1]).bucket = Extract(Batch("inv1")[2]).bucket
    /\ Written("inv1", 1)
    /\ Has("inv1", 2, "skip")

====
